---- MODULE Spec2Model ----
\* A model of the RAG demo backend (backend/main.py, backend/utils/pdf_parser.py):
\* the /upload/ and /ask/ request handlers, the chunker and the batched
\* embedding helper, with the ChromaDB collection as shared state.
\*
\* Strings are sequences of characters (one-character TLA+ strings); the fixed
\* pieces of the prompt template are single tokens of such a sequence.
EXTENDS Integers, Sequences, FiniteSets, TLC

VARIABLES
    OPENAI_API_KEY,  \* main.py:36  whether the credential is set (fixed at start)
    collection,      \* main.py:43  the Chroma collection: a sequence of records
    uuidCount,       \* number of uuid4() values drawn so far
    pc,              \* per request: where its handler stands
    request,         \* per request: its input
    chunks,          \* per request: upload_document's local `chunks`
    doc_id,          \* per request: upload_document's local `doc_id`
    emb,             \* per request: embed_chunks_openai's local `emb`
    i,               \* per request: embed_chunks_openai's loop variable `i`
    embeddings,      \* per request: `embeddings` (upload) / `[query_emb]` (ask)
    top_chunks,      \* per request: ask_question's local `top_chunks`
    response,        \* per request: what the handler returned or raised
    log              \* per request: the external calls it made, in order (history)

vars == <<OPENAI_API_KEY, collection, uuidCount, pc, request, chunks, doc_id,
          emb, i, embeddings, top_chunks, response, log>>

-----------------------------------------------------------------------------
\* Bounds of the model.

MaxReq == 2          \* requests handled (concurrently) in the pipeline model
MaxTextLen == 7      \* longest enumerated text given to chunk_text directly
MaxChunkLen == 5     \* largest enumerated max_chunk_len given to chunk_text
MaxTexts == 41       \* longest list given to embed_chunks_openai directly

\* Program constants.

DEFAULT_MAX_CHUNK_LEN == 500   \* pdf_parser.py:26
BATCH == 20                    \* main.py:54,56
N_RESULTS == 5                 \* main.py:145
PREVIEW == 3                   \* main.py:112

Requests == 1..MaxReq

-----------------------------------------------------------------------------
\* Generic helpers (Python built-ins).

Min(a, b) == IF a <= b THEN a ELSE b

\* s[a:b] for 0 <= a, b (Python slice, clipped at the end of s)
Slice(s, a, b) == SubSeq(s, a + 1, Min(b, Len(s)))

\* s.endswith(suffix)
EndsWith(s, suffix) ==
    /\ Len(suffix) <= Len(s)
    /\ SubSeq(s, Len(s) - Len(suffix) + 1, Len(s)) = suffix

\* The concatenation of a sequence of sequences.
RECURSIVE Concat(_)
Concat(ss) == IF ss = <<>> THEN <<>> ELSE Head(ss) \o Concat(Tail(ss))

\* sep.join(parts)
RECURSIVE Join(_, _)
Join(sep, parts) ==
    IF parts = <<>> THEN <<>>
    ELSE IF Len(parts) = 1 THEN parts[1]
    ELSE parts[1] \o sep \o Join(sep, Tail(parts))

Whitespace == {" ", "\n", "\t"}

\* s.strip()
RECURSIVE LStrip(_)
LStrip(s) == IF s # <<>> /\ Head(s) \in Whitespace THEN LStrip(Tail(s)) ELSE s

RECURSIVE RStrip(_)
RStrip(s) ==
    IF s # <<>> /\ s[Len(s)] \in Whitespace THEN RStrip(SubSeq(s, 1, Len(s) - 1)) ELSE s

Strip(s) == RStrip(LStrip(s))

-----------------------------------------------------------------------------
\* pdf_parser.py: chunk_text

\* Mutant: no overlap, the stride is the whole window.
Stride_NoOverlap(max_chunk_len) == max_chunk_len

\* stride = int(max_chunk_len * 0.75)
Stride(max_chunk_len) == (max_chunk_len * 75) \div 100

\* Mutant: the window ends where the next one starts.
Window_ToStride(text, off, max_chunk_len) ==
    Slice(text, off, off + (max_chunk_len * 75) \div 100)

\* Mutant: the window is one character short.
Window_Short(text, off, max_chunk_len) == Slice(text, off, off + max_chunk_len - 1)

\* One window: text[i:i+max_chunk_len]
Window(text, off, max_chunk_len) == Slice(text, off, off + max_chunk_len)

\* for i in range(0, len(text), stride): append the non-empty window at i
RECURSIVE ChunkLoop(_, _, _, _, _)
ChunkLoop(text, max_chunk_len, stride, off, acc) ==
    IF off >= Len(text) THEN acc
    ELSE LET chunk == Window(text, off, max_chunk_len)
         IN  ChunkLoop(text, max_chunk_len, stride, off + stride,
                       IF chunk # <<>> THEN Append(acc, chunk) ELSE acc)

\* Mutant: the empty text yields one empty chunk.
chunk_text_KeepEmpty(text, max_chunk_len) ==
    IF text = <<>> THEN << <<>> >>
    ELSE ChunkLoop(text, max_chunk_len, (max_chunk_len * 75) \div 100, 0, <<>>)

chunk_text(text, max_chunk_len) ==
    ChunkLoop(text, max_chunk_len, Stride(max_chunk_len), 0, <<>>)

-----------------------------------------------------------------------------
\* The embedding provider (openai.embeddings.create) and main.py: embed_chunks_openai

Letters == <<"a", "b", "c", "d", "e", "f", "g">>

\* Number of positions of t holding character c.
Count(t, c) == Cardinality({k \in DOMAIN t : t[k] = c})

\* The provider's embedding of one text: a fixed function of the text.
ProviderEmbedding(t) == <<Len(t), Count(t, "a") - Count(t, "b")>>

\* The orders in which the provider may list the n items of one response:
\* the rotations of 1..n and of n..1.
ResponseOrders(n) ==
    {[k \in 1..n |-> ((k - 1 + d) % n) + 1] : d \in 0..(n - 1)}
    \cup {[k \in 1..n |-> ((n - k + d) % n) + 1] : d \in 0..(n - 1)}

\* response.data of openai.embeddings.create(input=batch): one item per input,
\* each carrying the zero-based index of its input, listed in the order `order`.
ProviderResponse(batch, order) ==
    [k \in 1..Len(batch) |->
        [index |-> order[k] - 1, embedding |-> ProviderEmbedding(batch[order[k]])]]

\* Mutant: the response is taken in the order the provider sent it.
SortedByIndex_Unsorted(data) == data

\* sorted(response.data, key=lambda x: x.index)
RECURSIVE InsertByIndex(_, _)
InsertByIndex(sorted, d) ==
    IF sorted = <<>> THEN <<d>>
    ELSE IF d.index < Head(sorted).index THEN <<d>> \o sorted
    ELSE <<Head(sorted)>> \o InsertByIndex(Tail(sorted), d)

RECURSIVE SortLoop(_, _)
SortLoop(data, acc) ==
    IF data = <<>> THEN acc ELSE SortLoop(Tail(data), InsertByIndex(acc, Head(data)))

SortedByIndex(data) == SortLoop(data, <<>>)

\* chunks[i:i+20]
BatchOf(texts, off) == Slice(texts, off, off + BATCH)

\* emb.extend([d.embedding for d in sorted_embs])
ExtendEmb(acc, data) ==
    LET sorted_embs == SortedByIndex(data)
    IN  acc \o [k \in 1..Len(sorted_embs) |-> sorted_embs[k].embedding]

-----------------------------------------------------------------------------
\* The vector store (chromadb collection "documents") as main.py uses it.

\* Mutant: the chunk's position is left out of its identifier.
ChunkId_NoIndex(d, k) == d \o <<"_chunk_", 0>>

\* ids = [f"{doc_id}_chunk_{i}" ...]
ChunkId(d, k) == d \o <<"_chunk_", k>>

\* metadatas = [{"filename": filename, "doc_id": doc_id, "chunk_id": i} ...]
Metadata(filename, d, k) == [filename |-> filename, doc_id |-> d, chunk_id |-> k]

\* Mutant: chunk identifiers numbered from 1.
Ids_OneBased(d, cs) == [k \in 1..Len(cs) |-> d \o <<"_chunk_", k>>]

Ids(d, cs) == [k \in 1..Len(cs) |-> ChunkId(d, k - 1)]

Metadatas(filename, d, cs) == [k \in 1..Len(cs) |-> Metadata(filename, d, k - 1)]

\* collection.add(embeddings=, documents=, metadatas=, ids=) takes parallel lists.
AddAccepts(es, docs, metas, ids) ==
    /\ Len(es) = Len(ids)
    /\ Len(docs) = Len(ids)
    /\ Len(metas) = Len(ids)

CollectionAdd(coll, es, docs, metas, ids) ==
    coll \o [k \in 1..Len(ids) |->
                [id |-> ids[k], embedding |-> es[k], document |-> docs[k],
                 metadata |-> metas[k]]]

\* Squared distance between two vectors of the same dimension.
Distance(u, v) ==
    (u[1] - v[1]) * (u[1] - v[1]) + (u[2] - v[2]) * (u[2] - v[2])

\* Record a ranks before record b for query vector q (ties: earlier insert first).
Closer(coll, q, a, b) ==
    LET da == Distance(coll[a].embedding, q)
        db == Distance(coll[b].embedding, q)
    IN  da < db \/ (da = db /\ a <= b)

RECURSIVE Ranked(_, _, _, _)
Ranked(coll, q, S, k) ==
    IF k = 0 \/ S = {} THEN <<>>
    ELSE LET best == CHOOSE a \in S : \A b \in S : Closer(coll, q, a, b)
         IN  <<coll[best]>> \o Ranked(coll, q, S \ {best}, k - 1)

\* collection.query(query_embeddings=[q], n_results=k): best match first.
CollectionQuery(coll, q, k) == Ranked(coll, q, DOMAIN coll, k)

\* Mutant: results["documents"] without the [0].
Documents_Nested(results) == << [k \in 1..Len(results) |-> results[k].document] >>

\* results["documents"][0]
Documents(results) == [k \in 1..Len(results) |-> results[k].document]

-----------------------------------------------------------------------------
\* Responses of a handler or of a direct call.

Pending == [outcome |-> "pending"]
HTTPException(status_code, detail) ==
    [outcome |-> "http_error", status_code |-> status_code, detail |-> detail]
Success(body) == [outcome |-> "ok", body |-> body]
Unhandled(cause) == [outcome |-> "unhandled", cause |-> cause]
Returned(value) == [outcome |-> "returned", value |-> value]
Raised(cause) == [outcome |-> "raised", cause |-> cause]

NoRequest == [kind |-> "none"]

-----------------------------------------------------------------------------
\* Inputs of the requests.

\* A 1200-character text.
ResumeText == [k \in 1..1200 |-> Letters[((k - 1) % 7) + 1]]

\* A 2000-character text (six chunks) that repeats itself every 750
\* characters, so that its chunks 0, 2 and 4 are the same string, and so are
\* its chunks 1 and 3.
BookText == [k \in 1..2000 |-> Letters[(((k - 1) % 750) % 7) + 1]]

\* Uploaded files: the name, whether the parser can read the bytes, and the
\* text the parser finds (per page for a PDF, None as the empty text; the
\* decoded contents for a TXT).
Files == <<
    [filename |-> <<"a", ".", "d", "o", "c", "x">>, readable |-> TRUE,
     pages |-> << <<"h", "i">> >>],
    [filename |-> <<"c", ".", "p", "d", "f">>, readable |-> FALSE,
     pages |-> <<>>],
    [filename |-> <<"e", ".", "t", "x", "t">>, readable |-> TRUE,
     pages |-> << <<>> >>],
    [filename |-> <<"b", ".", "p", "d", "f">>, readable |-> TRUE,
     pages |-> << <<"a", "b", " ">>, <<>>, <<"c">> >>],
    [filename |-> <<"b", "o", "o", "k", ".", "t", "x", "t">>,
     readable |-> TRUE, pages |-> <<BookText>>] >>

Queries == { <<"a", "?">>, <<"b", "b", "b", "c", "?">> }

\* What the chat model may send back as message content.
Completions == { <<" ", "o", "k", ".", "\n">> }

PDF == <<".", "p", "d", "f">>
TXT == <<".", "t", "x", "t">>

-----------------------------------------------------------------------------
\* pdf_parser.py: the parsers. Each returns [ok, text] (ok = FALSE: it raised).

\* extract_text_from_pdf: text += page.extract_text() or ''
extract_text_from_pdf(file) ==
    IF file.readable THEN [ok |-> TRUE, text |-> Concat(file.pages)]
    ELSE [ok |-> FALSE, text |-> <<>>]

\* extract_text_from_txt: file_stream.read().decode('utf-8')
extract_text_from_txt(file) ==
    IF file.readable THEN [ok |-> TRUE, text |-> file.pages[1]]
    ELSE [ok |-> FALSE, text |-> <<>>]

-----------------------------------------------------------------------------
\* main.py: pieces of the handlers.

\* Mutant: the extension is not checked.
Supported_Any(filename) == TRUE

\* not (filename.endswith('.pdf') or filename.endswith('.txt'))
Supported(filename) == EndsWith(filename, PDF) \/ EndsWith(filename, TXT)

FileType(filename) == IF EndsWith(filename, PDF) THEN "pdf" ELSE "txt"

Parse(file) ==
    IF EndsWith(file.filename, PDF) THEN extract_text_from_pdf(file)
    ELSE extract_text_from_txt(file)

\* str(uuid.uuid4()) for the n-th value drawn
UuidStr(n) == <<"uuid", n>>

\* preview = chunks[:3] if len(chunks) > 3 else chunks
Preview(cs) == IF Len(cs) > PREVIEW THEN Slice(cs, 0, PREVIEW) ELSE cs

\* The dictionary upload_document returns.
UploadReport(filename, cs, d) ==
    [filename |-> filename, filetype |-> FileType(filename),
     num_chunks |-> Len(cs), doc_id |-> d, chunk_preview |-> Preview(cs)]

PromptHead ==
    << "You are an expert assistant. Given the following context chunks (from user files) and a question, ",
       "give a concise answer based strictly on the context. Cite text by quoting or listing sources if helpful.\n\n",
       "Context Chunks:\n" >>

SEP == <<"\n---\n">>

\* context = "\n---\n".join(top_chunks); prompt = f"...{context}...{query}..."
Prompt(tops, query) ==
    PromptHead \o Join(SEP, tops) \o <<"\n\nQuestion:\n">> \o query \o <<"\n\nAnswer:">>

\* Mutant: the evidence is cut like the upload's chunk preview.
AskResult_Cut(content, tops, query) ==
    [answer |-> Strip(content), evidence |-> Slice(tops, 0, PREVIEW),
     llm_context |-> Prompt(tops, query),
     message |-> "Answer generated using retrieved context."]

\* The dictionary ask_question returns.
AskResult(content, tops, query) ==
    [answer |-> Strip(content), evidence |-> tops, llm_context |-> Prompt(tops, query),
     message |-> "Answer generated using retrieved context."]

\* The argument of the embed_chunks_openai call request r makes.
EmbedArg(r) ==
    IF request[r].kind = "upload" THEN chunks[r]
    ELSE IF request[r].kind = "ask" THEN <<request[r].query>>
    ELSE request[r].texts

Logged(r, event) == log' = [log EXCEPT ![r] = Append(@, event)]

-----------------------------------------------------------------------------
\* main.py: embed_chunks_openai, as called by request r of kind `kind`.

\* `return emb`, and what the caller does with the value.
EmbedReturned(r, kind, value) ==
    /\ emb' = [emb EXCEPT ![r] = value]
    /\ i' = i
    /\ IF kind = "upload"
       THEN /\ embeddings' = [embeddings EXCEPT ![r] = value]
            /\ pc' = [pc EXCEPT ![r] = "store"]
            /\ response' = response
       ELSE IF kind = "ask"
       THEN /\ embeddings' = [embeddings EXCEPT ![r] = <<value[1]>>]
            /\ pc' = [pc EXCEPT ![r] = "query"]
            /\ response' = response
       ELSE /\ embeddings' = embeddings
            /\ pc' = [pc EXCEPT ![r] = "done"]
            /\ response' = [response EXCEPT ![r] = Returned(value)]

\* An exception inside embed_chunks_openai: both handlers catch it (main.py:100,
\* 138) and answer 500; a direct caller sees it raised.
EmbedRaised(r, kind, cause) ==
    /\ emb' = emb
    /\ i' = i
    /\ embeddings' = embeddings
    /\ pc' = [pc EXCEPT ![r] = "done"]
    /\ response' = [response EXCEPT ![r] =
          IF kind \in {"upload", "ask"}
          THEN HTTPException(500, <<"Embedding failed: ", cause>>)
          ELSE Raised(cause)]

\* Entry of embed_chunks_openai(texts): the credential check, emb = [], and the
\* loop header.
EmbedEnter(r, kind, texts) ==
    IF ~OPENAI_API_KEY THEN EmbedRaised(r, kind, "OpenAI API Key not set!")
    ELSE IF 0 >= Len(texts) THEN EmbedReturned(r, kind, <<>>)
    ELSE /\ emb' = [emb EXCEPT ![r] = <<>>]
         /\ i' = [i EXCEPT ![r] = 0]
         /\ embeddings' = embeddings
         /\ pc' = [pc EXCEPT ![r] = "embed"]
         /\ response' = response

\* One iteration of the loop: one provider call for chunks[i:i+20].
EmbedBatch(r) ==
    /\ pc[r] = "embed"
    /\ LET texts == EmbedArg(r)
           kind == request[r].kind
           batch == BatchOf(texts, i[r])
       IN  \/ \E order \in ResponseOrders(Len(batch)) :
                 LET e == ExtendEmb(emb[r], ProviderResponse(batch, order))
                 IN  /\ Logged(r, "embed_ok")
                     /\ IF i[r] + BATCH < Len(texts)
                        THEN /\ emb' = [emb EXCEPT ![r] = e]
                             /\ i' = [i EXCEPT ![r] = @ + BATCH]
                             /\ UNCHANGED <<embeddings, pc, response>>
                        ELSE EmbedReturned(r, kind, e)
           \/ /\ Logged(r, "embed_err")
              /\ EmbedRaised(r, kind, "APIError")
    /\ UNCHANGED <<OPENAI_API_KEY, collection, uuidCount, request, chunks, doc_id,
                   top_chunks>>

-----------------------------------------------------------------------------
\* main.py: upload_document

Fail(r, status_code, detail) ==
    /\ response' = [response EXCEPT ![r] = HTTPException(status_code, detail)]
    /\ pc' = [pc EXCEPT ![r] = "done"]

\* Lines 73-99: validation, parsing, chunking, doc_id, entry of the embedding call.
UploadReceive(r) ==
    /\ pc[r] = "idle"
    /\ \E f \in DOMAIN Files :
          LET file == Files[f]
              parsed == Parse(file)
              cs == chunk_text(parsed.text, DEFAULT_MAX_CHUNK_LEN)
          IN  /\ request' = [request EXCEPT ![r] = [kind |-> "upload", file |-> f]]
              /\ IF ~Supported(file.filename)
                 THEN /\ Fail(r, 400, <<"Only PDF and TXT files are supported.">>)
                      /\ UNCHANGED <<chunks, doc_id, uuidCount, emb, i, embeddings>>
                 ELSE IF ~OPENAI_API_KEY
                 THEN /\ Fail(r, 500, <<"OpenAI API key environment variable not set.">>)
                      /\ UNCHANGED <<chunks, doc_id, uuidCount, emb, i, embeddings>>
                 ELSE IF ~parsed.ok
                 THEN /\ Fail(r, 400, <<"File parsing failed: ", "parse error">>)
                      /\ UNCHANGED <<chunks, doc_id, uuidCount, emb, i, embeddings>>
                 ELSE IF cs = <<>>
                 THEN /\ Fail(r, 400, <<"No text found to index.">>)
                      /\ chunks' = [chunks EXCEPT ![r] = cs]
                      /\ UNCHANGED <<doc_id, uuidCount, emb, i, embeddings>>
                 ELSE /\ chunks' = [chunks EXCEPT ![r] = cs]
                      /\ uuidCount' = uuidCount + 1
                      /\ doc_id' = [doc_id EXCEPT ![r] = UuidStr(uuidCount + 1)]
                      /\ EmbedEnter(r, "upload", cs)
    /\ UNCHANGED <<OPENAI_API_KEY, collection, top_chunks, log>>

\* Lines 103-119: the bulk insert and the report. The call is outside any try
\* block: when it raises, the exception leaves the handler.
UploadStore(r) ==
    /\ pc[r] = "store"
    /\ LET filename == Files[request[r].file].filename
           ids == Ids(doc_id[r], chunks[r])
           metadatas == Metadatas(filename, doc_id[r], chunks[r])
       IN  \/ /\ AddAccepts(embeddings[r], chunks[r], metadatas, ids)
              /\ collection' = CollectionAdd(collection, embeddings[r], chunks[r],
                                             metadatas, ids)
              /\ Logged(r, "add_ok")
              /\ response' = [response EXCEPT ![r] =
                                Success(UploadReport(filename, chunks[r], doc_id[r]))]
           \/ /\ collection' = collection
              /\ Logged(r, "add_err")
              /\ response' = [response EXCEPT ![r] = Unhandled("ChromaError")]
    /\ pc' = [pc EXCEPT ![r] = "done"]
    /\ UNCHANGED <<OPENAI_API_KEY, uuidCount, request, chunks, doc_id, emb, i,
                   embeddings, top_chunks>>

-----------------------------------------------------------------------------
\* main.py: ask_question

\* Lines 132-137: the credential check and the entry of the embedding call.
AskReceive(r) ==
    /\ pc[r] = "idle"
    /\ \E q \in Queries :
          /\ request' = [request EXCEPT ![r] = [kind |-> "ask", query |-> q]]
          /\ IF ~OPENAI_API_KEY
             THEN /\ Fail(r, 500, <<"OpenAI API key environment variable not set.">>)
                  /\ UNCHANGED <<emb, i, embeddings>>
             ELSE EmbedEnter(r, "ask", <<q>>)
    /\ UNCHANGED <<OPENAI_API_KEY, collection, uuidCount, chunks, doc_id, top_chunks,
                   log>>

\* Lines 141-152: the similarity query.
AskQuery(r) ==
    /\ pc[r] = "query"
    /\ \/ /\ top_chunks' = [top_chunks EXCEPT ![r] =
                Documents(CollectionQuery(collection, embeddings[r][1], N_RESULTS))]
          /\ Logged(r, "query_ok")
          /\ pc' = [pc EXCEPT ![r] = "llm"]
          /\ response' = response
       \/ /\ top_chunks' = top_chunks
          /\ Logged(r, "query_err")
          /\ Fail(r, 500, <<"Vector DB query failed: ", "ChromaError">>)
    /\ UNCHANGED <<OPENAI_API_KEY, collection, uuidCount, request, chunks, doc_id,
                   emb, i, embeddings>>

\* Lines 154-182: prompt assembly, the chat completion and the result.
AskLLM(r) ==
    /\ pc[r] = "llm"
    /\ \/ \E content \in Completions :
             /\ Logged(r, "llm_ok")
             /\ response' = [response EXCEPT ![r] =
                   Success(AskResult(content, top_chunks[r], request[r].query))]
             /\ pc' = [pc EXCEPT ![r] = "done"]
       \/ /\ Logged(r, "llm_err")
          /\ Fail(r, 500, <<"LLM call failed: ", "APIError">>)
    /\ UNCHANGED <<OPENAI_API_KEY, collection, uuidCount, request, chunks, doc_id,
                   emb, i, embeddings, top_chunks>>

-----------------------------------------------------------------------------
\* The service: MaxReq requests, each an upload or a question, handled
\* concurrently (FastAPI runs the two synchronous handlers on worker threads).

Idle(r) ==
    /\ pc[r] = "idle" /\ request[r] = NoRequest /\ response[r] = Pending

Init ==
    /\ OPENAI_API_KEY \in BOOLEAN
    /\ collection = <<>>
    /\ uuidCount = 0
    /\ pc = [r \in Requests |-> "idle"]
    /\ request = [r \in Requests |-> NoRequest]
    /\ chunks = [r \in Requests |-> <<>>]
    /\ doc_id = [r \in Requests |-> <<>>]
    /\ emb = [r \in Requests |-> <<>>]
    /\ i = [r \in Requests |-> 0]
    /\ embeddings = [r \in Requests |-> <<>>]
    /\ top_chunks = [r \in Requests |-> <<>>]
    /\ response = [r \in Requests |-> Pending]
    /\ log = [r \in Requests |-> <<>>]

Next ==
    \E r \in Requests :
        \/ UploadReceive(r)
        \/ EmbedBatch(r)
        \/ UploadStore(r)
        \/ AskReceive(r)
        \/ AskQuery(r)
        \/ AskLLM(r)

Spec == Init /\ [][Next]_vars

-----------------------------------------------------------------------------
\* chunk_text called directly on enumerated inputs.

ChunkTexts == UNION {[1..n -> {"a", "b"}] : n \in 0..MaxTextLen}

ChunkInputs ==
    {[kind |-> "chunk", text |-> t, max_chunk_len |-> m] :
        t \in ChunkTexts, m \in 2..MaxChunkLen}
    \cup {[kind |-> "chunk", text |-> ResumeText,
           max_chunk_len |-> DEFAULT_MAX_CHUNK_LEN]}

\* The state before a direct call by request 1 with input `input`.
CallInit(input) ==
    /\ collection = <<>>
    /\ uuidCount = 0
    /\ pc = [r \in Requests |-> IF r = 1 THEN "call" ELSE "idle"]
    /\ request = [r \in Requests |-> IF r = 1 THEN input ELSE NoRequest]
    /\ chunks = [r \in Requests |-> <<>>]
    /\ doc_id = [r \in Requests |-> <<>>]
    /\ emb = [r \in Requests |-> <<>>]
    /\ i = [r \in Requests |-> 0]
    /\ embeddings = [r \in Requests |-> <<>>]
    /\ top_chunks = [r \in Requests |-> <<>>]
    /\ response = [r \in Requests |-> Pending]
    /\ log = [r \in Requests |-> <<>>]

ChunkCall(r) ==
    /\ pc[r] = "call"
    /\ request[r].kind = "chunk"
    /\ response' = [response EXCEPT ![r] =
          Returned(chunk_text(request[r].text, request[r].max_chunk_len))]
    /\ pc' = [pc EXCEPT ![r] = "done"]
    /\ UNCHANGED <<OPENAI_API_KEY, collection, uuidCount, request, chunks, doc_id,
                   emb, i, embeddings, top_chunks, log>>

InitChunk ==
    /\ OPENAI_API_KEY = TRUE
    /\ \E input \in ChunkInputs : CallInit(input)

NextChunk == ChunkCall(1)

SpecChunk == InitChunk /\ [][NextChunk]_vars

-----------------------------------------------------------------------------
\* embed_chunks_openai called directly on enumerated lists of texts.

Word(c, n) == [k \in 1..n |-> c]

TextLists(n) ==
    { [j \in 1..n |-> Word("a", j)],
      [j \in 1..n |-> Word("b", n - j + 1)],
      [j \in 1..n |-> Word(Letters[(j % 3) + 1], j % 4)] }

EmbedInputs ==
    {[kind |-> "embed", texts |-> ts] : ts \in UNION {TextLists(n) : n \in 0..MaxTexts}}

EmbedCall(r) ==
    /\ pc[r] = "call"
    /\ request[r].kind = "embed"
    /\ EmbedEnter(r, "embed", request[r].texts)
    /\ UNCHANGED <<OPENAI_API_KEY, collection, uuidCount, request, chunks, doc_id,
                   top_chunks, log>>

InitEmbed ==
    /\ OPENAI_API_KEY \in BOOLEAN
    /\ \E input \in EmbedInputs : CallInit(input)

NextEmbed == EmbedCall(1) \/ EmbedBatch(1)

SpecEmbed == InitEmbed /\ [][NextEmbed]_vars

-----------------------------------------------------------------------------
\* Properties of chunk_text (under SpecChunk).

CeilDiv(a, b) == (a + b - 1) \div b

ResumeName == <<"r", "e", "s", "u", "m", "e", ".", "t", "x", "t">>

\* The direct call of chunk_text has returned.
ChunkDone == pc[1] = "done" /\ request[1].kind = "chunk"

\* The windows with each one's overlap with its predecessor removed, concatenated.
RECURSIVE Reconstruct(_, _, _)
Reconstruct(ws, stride, j) ==
    IF j > Len(ws) THEN <<>>
    ELSE (IF j = 1 THEN ws[1]
          ELSE SubSeq(ws[j], Len(ws[j - 1]) - stride + 1, Len(ws[j])))
         \o Reconstruct(ws, stride, j + 1)

\* C5 as stated: a text no longer than max_len comes back as the single window T.
C5_Original ==
    ChunkDone =>
        LET T == request[1].text
            M == request[1].max_chunk_len
        IN  Len(T) <= M => response[1].value = <<T>>

\* C5 as amended: a non-empty text no longer than the stride floor(M*0.75) comes
\* back as the single window T; the empty text gives no window; a text longer
\* than the stride and no longer than M gives two windows, T and T[stride:].
C5_ShortText ==
    ChunkDone =>
        LET T == request[1].text
            M == request[1].max_chunk_len
            s == (3 * M) \div 4
            ws == response[1].value
        IN  /\ (1 <= Len(T) /\ Len(T) <= s) => ws = <<T>>
            /\ Len(T) = 0 => ws = <<>>
            /\ (s < Len(T) /\ Len(T) <= M) => ws = <<T, SubSeq(T, s + 1, Len(T))>>

C5_Witness ==
    /\ ChunkDone
    /\ Len(request[1].text) = 3
    /\ request[1].max_chunk_len = 4
    /\ response[1].value = <<request[1].text>>

\* C6 as stated: a text longer than max_len gives ceil((L-M)/stride)+1 windows,
\* and the 1200-character text gives 3 chunks of lengths 500, 500, 200.
C6_Original ==
    ChunkDone =>
        LET T == request[1].text
            M == request[1].max_chunk_len
            s == (3 * M) \div 4
            ws == response[1].value
        IN  /\ Len(T) > M => Len(ws) = CeilDiv(Len(T) - M, s) + 1
            /\ (Len(T) = 1200 /\ M = 500) =>
                  /\ [j \in 1..Len(ws) |-> Len(ws[j])] = <<500, 500, 200>>
                  /\ UploadReport(ResumeName, ws, UuidStr(1)).num_chunks = 3

\* C6 as amended: a text longer than max_len gives ceil(L/stride) windows, the
\* last one clipped at the end of the text; the 1200-character text with
\* max_len 500 gives 4 chunks of lengths 500, 500, 450, 75 and the upload
\* reports num_chunks = 4.
C6_WindowCount ==
    ChunkDone =>
        LET T == request[1].text
            M == request[1].max_chunk_len
            s == (3 * M) \div 4
            ws == response[1].value
            n == Len(ws)
        IN  /\ Len(T) > M =>
                  /\ n = CeilDiv(Len(T), s)
                  /\ ws[n] = SubSeq(T, (n - 1) * s + 1, Len(T))
                  /\ \A j \in 1..n : Len(ws[j]) = Min(M, Len(T) - (j - 1) * s)
            /\ (Len(T) = 1200 /\ M = 500) =>
                  /\ [j \in 1..n |-> Len(ws[j])] = <<500, 500, 450, 75>>
                  /\ UploadReport(ResumeName, ws, UuidStr(1)).num_chunks = 4

C6_Witness ==
    /\ ChunkDone
    /\ Len(request[1].text) = 1200
    /\ request[1].max_chunk_len = 500
    /\ Len(response[1].value) = 4

\* C7: window j is T[j*stride : j*stride+M] with stride = floor(M*0.75); the
\* windows leave no position of T uncovered; two consecutive windows, the pair
\* ending in the last window excepted, share exactly M - stride characters; and
\* the windows without their overlaps concatenate to T.
C7_Cover ==
    ChunkDone =>
        LET T == request[1].text
            M == request[1].max_chunk_len
            s == (3 * M) \div 4
            ws == response[1].value
            n == Len(ws)
        IN  /\ \A j \in 1..n :
                  ws[j] = SubSeq(T, (j - 1) * s + 1, Min((j - 1) * s + M, Len(T)))
            /\ \A p \in 1..Len(T) :
                  \E j \in 1..n : (j - 1) * s < p /\ p <= (j - 1) * s + Len(ws[j])
            /\ \A j \in 1..(n - 2) :
                  /\ ((j - 1) * s + Len(ws[j])) - j * s = M - s
                  /\ Len(ws[j + 1]) >= M - s
                  /\ SubSeq(ws[j], s + 1, Len(ws[j])) = SubSeq(ws[j + 1], 1, M - s)
            /\ Reconstruct(ws, s, 1) = T

C7_Witness ==
    /\ ChunkDone
    /\ request[1].max_chunk_len = 5
    /\ Len(request[1].text) = 7
    /\ Len(response[1].value) = 3
    /\ Len(response[1].value[3]) = 1

-----------------------------------------------------------------------------
\* Properties of embed_chunks_openai (under SpecEmbed).

\* C8: when the credential is set and every provider call succeeds, the call
\* returns one vector per input text, the j-th being the provider's embedding
\* of the j-th text, whatever the number of batches and the order of each
\* response.
C8_EmbedOrder ==
    (/\ pc[1] = "done"
     /\ request[1].kind = "embed"
     /\ OPENAI_API_KEY
     /\ \A k \in DOMAIN log[1] : log[1][k] = "embed_ok") =>
        LET ts == request[1].texts
        IN  /\ response[1].outcome = "returned"
            /\ Len(response[1].value) = Len(ts)
            /\ \A j \in 1..Len(ts) : response[1].value[j] = ProviderEmbedding(ts[j])
            /\ Len(log[1]) = CeilDiv(Len(ts), 20)

C8_Witness ==
    /\ pc[1] = "done"
    /\ request[1].kind = "embed"
    /\ response[1].outcome = "returned"
    /\ Len(request[1].texts) = 41
    /\ Len(response[1].value) = 41
    /\ Len(log[1]) = 3

-----------------------------------------------------------------------------
\* Properties of the two handlers (under Spec).

\* Request r takes this step.
Acts(r) == pc'[r] # pc[r] \/ log'[r] # log[r]

IsUpload(r) == request[r].kind = "upload"
IsAsk(r) == request[r].kind = "ask"

\* The file of upload r, its parse and the chunks of its text.
FileOf(r) == Files[request[r].file]
ChunksOf(r) == chunk_text(Parse(FileOf(r)).text, 500)

Occurrences(seq, x) == Cardinality({k \in DOMAIN seq : seq[k] = x})

\* The step in which upload r reports success appends to the store exactly one
\* record per chunk of its text, record k carrying the identifier
\* "{doc_id}_chunk_{k}", the k-th chunk, its embedding, and a metadata map with
\* the keys filename, doc_id and `indexKey`, the last one holding k.
StoresItsChunks(r, indexKey) ==
    (IsUpload(r) /\ pc[r] = "store" /\ response'[r].outcome = "ok") =>
        LET cs == ChunksOf(r)
            N == Len(cs)
            d == response'[r].body.doc_id
            base == Len(collection)
        IN  /\ response'[r].body.num_chunks = N
            /\ Len(collection') = base + N
            /\ SubSeq(collection', 1, base) = collection
            /\ \A k \in 0..(N - 1) :
                  LET rec == collection'[base + k + 1]
                  IN  /\ rec.id = d \o <<"_chunk_", k>>
                      /\ rec.document = cs[k + 1]
                      /\ rec.embedding = ProviderEmbedding(cs[k + 1])
                      /\ DOMAIN rec.metadata = {"filename", "doc_id", indexKey}
                      /\ rec.metadata.filename = FileOf(r).filename
                      /\ rec.metadata.doc_id = d
                      /\ rec.metadata[indexKey] = k

\* C1 as stated: the position is stored under the metadata key chunk_index.
C1_Original == [][\A r \in Requests : StoresItsChunks(r, "chunk_index")]_vars

\* C1 as amended: the same N records, with the position stored under the
\* metadata key chunk_id.
C1_StoredRecords == [][\A r \in Requests : StoresItsChunks(r, "chunk_id")]_vars

C1_Witness ==
    \E r \in Requests :
        /\ IsUpload(r)
        /\ response[r].outcome = "ok"
        /\ response[r].body.num_chunks = 6
        /\ \E k \in DOMAIN collection :
              /\ collection[k].id = response[r].body.doc_id \o <<"_chunk_", 5>>
              /\ collection[k].metadata.chunk_id = 5

\* C2: the store changes only in the step in which an upload reports success,
\* that step is the request's only write and comes after the extension check,
\* the parse, the chunking and every embedding batch have succeeded; an upload
\* that ends in a failure has written nothing; an upload that reports success
\* wrote in that very step.
C2_AllOrNothing ==
    [][/\ collection' # collection =>
             \E r \in Requests :
                /\ IsUpload(r)
                /\ pc[r] = "store" /\ pc'[r] = "done"
                /\ response'[r].outcome = "ok"
                /\ \/ EndsWith(FileOf(r).filename, <<".", "p", "d", "f">>)
                   \/ EndsWith(FileOf(r).filename, <<".", "t", "x", "t">>)
                /\ OPENAI_API_KEY
                /\ Parse(FileOf(r)).ok
                /\ chunks[r] = ChunksOf(r) /\ chunks[r] # <<>>
                /\ Len(embeddings[r]) = Len(chunks[r])
                /\ log[r] = [k \in 1..CeilDiv(Len(chunks[r]), 20) |-> "embed_ok"]
                /\ log'[r] = Append(log[r], "add_ok")
       /\ \A r \in Requests :
             /\ (IsUpload(r) /\ response[r].outcome = "pending"
                   /\ response'[r].outcome = "ok") =>
                    (collection' # collection /\ Len(collection') > Len(collection))
             /\ (request'[r].kind = "upload" /\ response'[r].outcome \notin {"pending", "ok"}) =>
                    (/\ Occurrences(log'[r], "add_ok") = 0
                     /\ (Acts(r) => collection' = collection))
             /\ Occurrences(log'[r], "add_ok") <= 1
      ]_vars

C2_Witness ==
    \E r1, r2 \in Requests :
        /\ IsUpload(r1) /\ response[r1].outcome = "ok"
        /\ IsUpload(r2) /\ response[r2].outcome = "http_error"
        /\ response[r2].detail = <<"Embedding failed: ", "APIError">>
        /\ Len(collection) = response[r1].body.num_chunks

\* C3: an upload whose bulk insert failed ends in a translated error (an HTTP
\* error naming the failure), like an upload whose embedding failed.
C3_StoreFailureTranslated ==
    \A r \in Requests :
        (IsUpload(r) /\ pc[r] = "done" /\ Occurrences(log[r], "add_err") > 0) =>
            response[r].outcome = "http_error"

\* An upload of a supported file that parses to the empty text has ended.
EmptyUploadDone(r) ==
    /\ IsUpload(r)
    /\ pc[r] = "done"
    /\ Supported(FileOf(r).filename)
    /\ Parse(FileOf(r)).ok
    /\ Parse(FileOf(r)).text = <<>>

\* C4 as stated: such an upload ends in "No text found to index." with no
\* external call made, whether or not the credential is set.
C4_Original ==
    \A r \in Requests :
        EmptyUploadDone(r) =>
            /\ response[r] = HTTPException(400, <<"No text found to index.">>)
            /\ log[r] = <<>>

\* C4 as amended: with the credential set such an upload ends in "No text found
\* to index."; without it, it ends in the missing-credential error; either way
\* it made no provider call and no store call, and the store holds no record
\* of that file.
C4_EmptyDocument ==
    \A r \in Requests :
        EmptyUploadDone(r) =>
            /\ OPENAI_API_KEY =>
                  response[r] = HTTPException(400, <<"No text found to index.">>)
            /\ ~OPENAI_API_KEY =>
                  response[r] = HTTPException(500,
                                   <<"OpenAI API key environment variable not set.">>)
            /\ log[r] = <<>>
            /\ \A k \in DOMAIN collection :
                  collection[k].metadata.filename # FileOf(r).filename

C4_Witness ==
    \E r \in Requests :
        /\ EmptyUploadDone(r)
        /\ OPENAI_API_KEY
        /\ response[r].outcome = "http_error"
        /\ response[r].status_code = 400

\* A question has ended while the store is (and so always was) empty, with the
\* credential set and no failed provider call.
AskedEmptyStore(r) ==
    /\ IsAsk(r)
    /\ pc[r] = "done"
    /\ collection = <<>>
    /\ OPENAI_API_KEY
    /\ Occurrences(log[r], "embed_err") = 0
    /\ Occurrences(log[r], "llm_err") = 0

RECURSIVE Separated(_)
Separated(texts) ==
    IF texts = <<>> THEN <<>>
    ELSE IF Len(texts) = 1 THEN texts[1]
    ELSE texts[1] \o <<"\n---\n">> \o Separated(Tail(texts))

\* C10: the query step retrieves the texts of the store's five best matches
\* for the query's embedding, best first (all of them when the store holds
\* fewer); the successful result carries exactly those texts as evidence and a
\* prompt made of the template, those texts joined by "\n---\n", and the
\* query; no step of a question changes the store.
C10_Evidence ==
    [][\A r \in Requests :
          request'[r].kind = "ask" =>
             /\ (pc[r] = "query" /\ pc'[r] = "llm") =>
                   LET ranked == CollectionQuery(collection,
                                     ProviderEmbedding(request[r].query), 5)
                   IN  /\ top_chunks'[r] = [k \in 1..Len(ranked) |-> ranked[k].document]
                       /\ Len(top_chunks'[r]) = Min(5, Len(collection))
             /\ (pc[r] = "llm" /\ response'[r].outcome = "ok") =>
                   /\ response'[r].body.evidence = top_chunks[r]
                   /\ response'[r].body.llm_context =
                         PromptHead \o Separated(top_chunks[r])
                            \o <<"\n\nQuestion:\n">> \o request[r].query
                            \o <<"\n\nAnswer:">>
             /\ Acts(r) => collection' = collection
      ]_vars

C10_Witness ==
    \E r \in Requests :
        /\ IsAsk(r)
        /\ response[r].outcome = "ok"
        /\ Len(collection) = 6
        /\ Len(response[r].body.evidence) = 5
        /\ response[r].body.evidence[2] = response[r].body.evidence[3]
        /\ response[r].body.evidence[1] # response[r].body.evidence[2]

-----------------------------------------------------------------------------
\* Properties of the stored records under interleaved requests (under Spec).

\* No two records of coll share an identifier.
UniqueIds(coll) ==
    \A a, b \in DOMAIN coll : coll[a].id = coll[b].id => a = b

\* Every identifier of coll is "{doc_id}_chunk_{k}" for the doc_id of an upload
\* and a position k below the number of chunks of that upload's text.
WellFormedIds(coll) ==
    \A a \in DOMAIN coll :
        \E r \in Requests :
            /\ IsUpload(r)
            /\ \E n \in 1..uuidCount : doc_id[r] = <<"uuid", n>>
            /\ \E k \in 0..(Len(ChunksOf(r)) - 1) :
                  coll[a].id = doc_id[r] \o <<"_chunk_", k>>

\* C11: in every state reached by any interleaving of uploads and questions,
\* no two stored records share an identifier and every identifier is
\* "{doc_id}_chunk_{k}" with 0 <= k < the chunk count of that document; and no
\* step modifies or removes a stored record (the store only grows at its end).
C11_StoredRecordsStable ==
    [][/\ UniqueIds(collection) /\ UniqueIds(collection')
       /\ WellFormedIds(collection)
       /\ Len(collection') >= Len(collection)
       /\ SubSeq(collection', 1, Len(collection)) = collection
       /\ \A a \in DOMAIN collection' :
             \E r \in Requests :
                /\ request'[r].kind = "upload"
                /\ \E k \in 0..(Len(chunk_text(Parse(Files[request'[r].file]).text, 500)) - 1) :
                      collection'[a].id = doc_id'[r] \o <<"_chunk_", k>>
      ]_vars

\* Two uploads of the same file have both succeeded, one after the other's
\* records were stored.
C11_Witness ==
    \E r1, r2 \in Requests :
        /\ r1 # r2
        /\ IsUpload(r1) /\ IsUpload(r2)
        /\ request[r1].file = request[r2].file
        /\ response[r1].outcome = "ok" /\ response[r2].outcome = "ok"
        /\ response[r1].body.doc_id # response[r2].body.doc_id
        /\ Len(collection) = 12
        /\ collection[1].metadata.filename = collection[7].metadata.filename

====
